---- MODULE Spec2Model ----
(***************************************************************************)
(* The data pipeline of src/src/data_processing.py: a batch of raw         *)
(* activity records is turned into a DataFrame (activities_to_dataframe),  *)
(* rolled up by week and month (weekly_summary, monthly_summary), scanned  *)
(* for personal bests (get_personal_bests) and its pace column is rendered *)
(* (format_pace, as src/app.py:265 applies it).                            *)
(*                                                                         *)
(* A cell of a DataFrame is <<>> when it is missing (NaN / NaT / None) and *)
(* <<v>> when it holds v.  A fractional number is an exact fraction        *)
(* <<n, d>> in lowest terms, d > 0.  A timestamp is a day offset in 2024,  *)
(* day 0 being Monday 1 January 2024.                                      *)
(*                                                                         *)
(* The Strava client of src/src/strava_client.py: get_all_activities pages *)
(* through the athlete's activities, each page fetched by _get, which      *)
(* first makes sure of a valid access token (_ensure_token).  A request    *)
(* and its response are messages in flight; the clock is in seconds.       *)
(***************************************************************************)
EXTENDS Integers, Sequences, FiniteSets, TLC

VARIABLES activities, pc, df, weekly, monthly, activity_type, pbs, display

\* The client: its token fields, the clock, its position in
\* get_all_activities, the locals of that call, the request and the response
\* in flight, what the call returned, and the pages asked for and received.
VARIABLES access_token, refresh_token, token_expires_at, now, cpc, page,
          all_activities, after, before, request, response, result,
          requested, served

dataVars == <<activities, pc, df, weekly, monthly, activity_type, pbs, display>>

clientVars == <<access_token, refresh_token, token_expires_at, now, cpc, page,
                all_activities, after, before, request, response, result,
                requested, served>>

vars == <<dataVars, clientVars>>

\* The longest batch of raw records the model loads.
MaxBatch == 2

\* The last page the model lets get_all_activities ask for, the last second
\* of the clock, and the seconds an issued token lives.
MaxPages == 3
MaxTime == 3
TokenLife == 2

---------------------------------------------------------------------------
\* Missing and present cells.
None == <<>>
Some(v) == <<v>>
IsNull(c) == c = <<>>
NotNull(c) == c # <<>>
Val(c) == c[1]

\* Exact fractions.
RECURSIVE GCD(_, _)
GCD(a, b) == IF b = 0 THEN a ELSE GCD(b, a % b)

Rat(n, d) == LET g == GCD(n, d) IN <<n \div g, d \div g>>
RatInt(n) == <<n, 1>>
RatAdd(a, b) ==
    LET g == GCD(a[2], b[2])
        l == (a[2] \div g) * b[2]
    IN Rat(a[1] * (l \div a[2]) + b[1] * (l \div b[2]), l)
RatLess(a, b) == a[1] * b[2] < b[1] * a[2]
RatDivInt(a, k) == Rat(a[1], a[2] * k)
RatFloor(a) == a[1] \div a[2]

---------------------------------------------------------------------------
\* The keys a raw record may carry.
Fields ==
    {"id", "name", "type", "start_date_local", "start_date",
     "distance", "icu_distance", "moving_time", "icu_moving_time",
     "elapsed_time", "icu_elapsed_time",
     "total_elevation_gain", "icu_total_elevation_gain",
     "average_watts", "icu_average_watts",
     "weighted_avg_watts", "icu_weighted_avg_watts", "max_speed"}

Blank == [f \in Fields |-> None]

\* A record in the Strava / sample-data naming (src/src/sample_data.py:39-52).
StravaRecord(type, day, dist, mt, elev) ==
    [Blank EXCEPT !["id"] = Some(1), !["type"] = Some(type),
                  !["start_date_local"] = Some(day), !["start_date"] = Some(day),
                  !["distance"] = Some(dist), !["moving_time"] = Some(mt),
                  !["elapsed_time"] = Some(mt),
                  !["total_elevation_gain"] = Some(elev)]

\* A record that carries only the Intervals.icu aliases.
IcuRecord(type, day, dist, mt, elev) ==
    [Blank EXCEPT !["id"] = Some(1), !["type"] = Some(type),
                  !["start_date_local"] = Some(day),
                  !["icu_distance"] = Some(dist), !["icu_moving_time"] = Some(mt),
                  !["icu_elapsed_time"] = Some(mt),
                  !["icu_total_elevation_gain"] = Some(elev)]

\* A record with nothing but its id, type and local start.
BareRecord(type, day) ==
    [Blank EXCEPT !["id"] = Some(1), !["type"] = Some(type),
                  !["start_date_local"] = Some(day)]

\* The raw records a batch is drawn from.
RawRecords ==
    { StravaRecord("Run", 0, 10000, 2700, 0),
      StravaRecord("Run", 1, 5000, 1200, 50),
      StravaRecord("Run", 30, 6000, 1000, 120),
      StravaRecord("Run", 31, 0, 600, 0),
      StravaRecord("Run", 8, 3000, 0, 10),
      StravaRecord("VirtualRun", 9, 4000, 1000, 0),
      [StravaRecord("Run", 2, 5000, 1500, 30) EXCEPT !["id"] = None],
      [StravaRecord("Ride", 0, 20000, 3600, 300)
          EXCEPT !["average_watts"] = Some(200), !["max_speed"] = Some(12)],
      StravaRecord("Ride", 7, 30000, 3600, 100),
      StravaRecord("Ride", 31, 1000, 0, 0),
      [StravaRecord("VirtualRide", 32, 15000, 1800, 0)
          EXCEPT !["id"] = None, !["average_watts"] = Some(0)],
      StravaRecord("Swim", 3, 1500, 1800, 0),
      IcuRecord("Run", 2, 8000, 2400, 80),
      [IcuRecord("Ride", 30, 25000, 3000, 400)
          EXCEPT !["icu_average_watts"] = Some(250)],
      BareRecord("Run", 1),
      BareRecord("Ride", 32),
      [StravaRecord("Run", 0, 7000, 2100, 20)
          EXCEPT !["start_date_local"] = None, !["name"] = Some("Long Run")],
      [BareRecord("Run", 0) EXCEPT !["start_date_local"] = None,
                                   !["type"] = None, !["id"] = None,
                                   !["distance"] = Some(2000),
                                   !["moving_time"] = Some(900)] }

ActivityTypes == {"All", "Run", "Ride"}

\* The calendar of 2024: the day offset on which each month starts.
MonthStarts == <<0, 31, 60, 91, 121, 152, 182, 213, 244, 274, 305, 335>>
MonthOf(day) == Cardinality({m \in 1..12 : MonthStarts[m] <= day})
WeekStartOf(day) == day - (day % 7)
IsoWeekOf(day) == (day \div 7) + 1
DayNames == <<"Monday", "Tuesday", "Wednesday", "Thursday", "Friday",
              "Saturday", "Sunday">>
DayNameOf(day) == DayNames[(day % 7) + 1]

---------------------------------------------------------------------------
\* DataFrames.  status is "ok" for a returned frame and the name of the
\* exception for a call that raised; "unset" before the call.
Unset == [status |-> "unset", columns |-> {}, rows |-> <<>>]
Raised(e) == [status |-> e, columns |-> {}, rows |-> <<>>]
EmptyFrame == [status |-> "ok", columns |-> {}, rows |-> <<>>]
IsEmpty(frame) == frame.rows = <<>>

\* pd.DataFrame(activities): one column per key some record carries.
RawColumns(acts) == {f \in Fields : \E i \in DOMAIN acts : NotNull(acts[i][f])}

\* Lines 28-44: an alias column is copied to the canonical name only when the
\* frame has the alias column and no canonical column.
Aliased(acts, i, canon, alias) ==
    IF alias \in RawColumns(acts) /\ canon \notin RawColumns(acts)
    THEN acts[i][alias]
    ELSE acts[i][canon]

\* Lines 46-49: a required column the frame still lacks is created as 0.
Defaulted(acts, i, canon, alias) ==
    IF canon \notin RawColumns(acts) /\ alias \notin RawColumns(acts)
    THEN Some(0)
    ELSE Aliased(acts, i, canon, alias)

\* Lines 51-55: start_date_local is parsed if the column exists, else taken
\* from the start_date column.
LocalStart(acts, i) ==
    IF "start_date_local" \in RawColumns(acts)
    THEN acts[i]["start_date_local"]
    ELSE acts[i]["start_date"]

\* Lines 57-60.
Start(acts, i) ==
    IF "start_date" \notin RawColumns(acts)
    THEN LocalStart(acts, i)
    ELSE acts[i]["start_date"]

\* Lines 62-67: unit conversions; a missing operand gives a missing result.
Scaled(c, num, den) == IF IsNull(c) THEN None ELSE Some(Rat(Val(c) * num, den))

\* Lines 70-75: pace in min/km, None unless distance_km > 0.
PaceDefaultsToZero(dist, mt) ==
    IF NotNull(dist) /\ Val(dist) > 0
    THEN (IF IsNull(mt) THEN None ELSE Some(Rat(Val(mt) * 1000, 60 * Val(dist))))
    ELSE Some(RatInt(0))
Pace(dist, mt) ==
    IF NotNull(dist) /\ Val(dist) > 0
    THEN (IF IsNull(mt) THEN None ELSE Some(Rat(Val(mt) * 1000, 60 * Val(dist))))
    ELSE None

\* Lines 78-83: speed in km/h, None unless moving_time > 0.
Speed(dist, mt) ==
    IF NotNull(mt) /\ Val(mt) > 0
    THEN (IF IsNull(dist) THEN None ELSE Some(Rat(Val(dist) * 3600, 1000 * Val(mt))))
    ELSE None

\* index is the row's label (the RangeIndex of the frame), not a column.
DerivedColumns ==
    {"distance_km", "distance_miles", "elapsed_time_min", "moving_time_min",
     "elevation_gain_ft", "pace_min_per_km", "speed_kmh", "week", "month",
     "week_start", "day_of_week"}

FrameRow(acts, i) ==
    LET dist == Defaulted(acts, i, "distance", "icu_distance")
        mt == Defaulted(acts, i, "moving_time", "icu_moving_time")
        et == Defaulted(acts, i, "elapsed_time", "icu_elapsed_time")
        elev == Defaulted(acts, i, "total_elevation_gain", "icu_total_elevation_gain")
        day == Val(LocalStart(acts, i))
    IN [index |-> i,
        distance |-> dist,
        moving_time |-> mt,
        elapsed_time |-> et,
        total_elevation_gain |-> elev,
        average_watts |-> Aliased(acts, i, "average_watts", "icu_average_watts"),
        weighted_avg_watts |->
            Aliased(acts, i, "weighted_avg_watts", "icu_weighted_avg_watts"),
        start_date_local |-> LocalStart(acts, i),
        start_date |-> Start(acts, i),
        distance_km |-> Scaled(dist, 1, 1000),
        distance_miles |-> Scaled(dist, 100, 160934),
        elapsed_time_min |-> Scaled(et, 1, 60),
        moving_time_min |-> Scaled(mt, 1, 60),
        elevation_gain_ft |-> Scaled(elev, 328084, 100000),
        pace_min_per_km |-> Pace(dist, mt),
        speed_kmh |-> Speed(dist, mt),
        week |-> Some(IsoWeekOf(day)),
        month |-> Some(MonthOf(day)),
        week_start |-> Some(WeekStartOf(day)),
        day_of_week |-> Some(DayNameOf(day))] @@ acts[i]

FrameColumns(acts) ==
    RawColumns(acts)
    \cup {"distance", "moving_time", "elapsed_time", "total_elevation_gain",
           "start_date_local", "start_date"}
    \cup (IF "icu_average_watts" \in RawColumns(acts)
          THEN {"average_watts"} ELSE {})
    \cup (IF "icu_weighted_avg_watts" \in RawColumns(acts)
          THEN {"weighted_avg_watts"} ELSE {})
    \cup DerivedColumns

\* activities_to_dataframe.  Line 58 raises KeyError when the frame has
\* neither start column; line 86 raises ValueError (astype(int) of a missing
\* ISO week) when some row has no local start.
activities_to_dataframe(acts) ==
    IF acts = <<>> THEN EmptyFrame
    ELSE IF "start_date_local" \notin RawColumns(acts)
            /\ "start_date" \notin RawColumns(acts)
    THEN Raised("KeyError")
    ELSE IF \E i \in DOMAIN acts : IsNull(LocalStart(acts, i))
    THEN Raised("ValueError")
    ELSE [status |-> "ok",
          columns |-> FrameColumns(acts),
          rows |-> [i \in DOMAIN acts |-> FrameRow(acts, i)]]

---------------------------------------------------------------------------
\* Aggregation (weekly_summary, monthly_summary).

RECURSIVE RatSum(_)
RatSum(seq) ==
    IF seq = <<>> THEN RatInt(0)
    ELSE RatAdd(seq[1], RatSum(Tail(seq)))

RECURSIVE IntSum(_)
IntSum(seq) == IF seq = <<>> THEN 0 ELSE seq[1] + IntSum(Tail(seq))

\* The values of column col in the rows of group k, missing ones skipped
\* (pandas' sum, count and mean skip NaN), in row order.
RECURSIVE GroupValues(_, _, _, _, _)
GroupValues(rows, key, k, col, n) ==
    IF n = 0 THEN <<>>
    ELSE LET rest == GroupValues(rows, key, k, col, n - 1)
         IN IF rows[n][key] = Some(k) /\ NotNull(rows[n][col])
            THEN Append(rest, Val(rows[n][col]))
            ELSE rest

\* The mean of no value is NaN.
RatMean(seq) ==
    IF seq = <<>> THEN None ELSE Some(RatDivInt(RatSum(seq), Len(seq)))

\* The keys of the groups (a row with a missing key is in no group), ascending.
GroupKeys(rows, key) ==
    {Val(rows[i][key]) : i \in {j \in DOMAIN rows : NotNull(rows[j][key])}}

RECURSIVE Ascending(_)
Ascending(S) ==
    IF S = {} THEN <<>>
    ELSE LET m == CHOOSE x \in S : \A y \in S : x <= y
         IN <<m>> \o Ascending(S \ {m})

SummaryRow(rows, key, k) ==
    LET n == Len(rows) IN
    [bucket |-> k,
     total_distance_km |-> RatSum(GroupValues(rows, key, k, "distance_km", n)),
     total_distance_miles |-> RatSum(GroupValues(rows, key, k, "distance_miles", n)),
     total_moving_time_min |-> RatSum(GroupValues(rows, key, k, "moving_time_min", n)),
     total_elevation_m |-> IntSum(GroupValues(rows, key, k, "total_elevation_gain", n)),
     activity_count |-> Len(GroupValues(rows, key, k, "id", n)),
     avg_pace |-> RatMean(GroupValues(rows, key, k, "pace_min_per_km", n)),
     avg_speed_kmh |-> RatMean(GroupValues(rows, key, k, "speed_kmh", n))]

\* groupby(key).agg(...).reset_index().sort_values(key).  The aggregation
\* names the column "id", and raises KeyError on a frame without it.
Summary(frame, key) ==
    IF IsEmpty(frame) THEN EmptyFrame
    ELSE IF "id" \notin frame.columns THEN Raised("KeyError")
    ELSE LET keys == Ascending(GroupKeys(frame.rows, key))
         IN [status |-> "ok",
             columns |-> {key, "total_distance_km", "total_distance_miles",
                          "total_moving_time_min", "total_elevation_m",
                          "activity_count", "avg_pace", "avg_speed_kmh"},
             rows |-> [g \in DOMAIN keys |-> SummaryRow(frame.rows, key, keys[g])]]

weekly_summary(frame) == Summary(frame, "week_start")
monthly_summary(frame) == Summary(frame, "month")

---------------------------------------------------------------------------
\* Rendering.  A string is the sequence of its characters.

DigitChars == <<"0", "1", "2", "3", "4", "5", "6", "7", "8", "9">>

\* str(n) of a natural number.
RECURSIVE Decimal(_)
Decimal(n) ==
    IF n < 10 THEN <<DigitChars[n + 1]>>
    ELSE Decimal(n \div 10) \o <<DigitChars[(n % 10) + 1]>>

\* f"{n:02d}".
ZeroPadded2(n) == IF n < 10 THEN <<"0">> \o Decimal(n) ELSE Decimal(n)

\* round(x) of Python: to the nearest integer, a tie to the even one.
RatRound(a) ==
    LET q == a[1] \div a[2]
        twice == 2 * (a[1] % a[2])
    IN IF twice < a[2] THEN q
       ELSE IF twice > a[2] THEN q + 1
       ELSE IF q % 2 = 0 THEN q ELSE q + 1

Placeholder == <<"-", "-", ":", "-", "-">>

\* format_pace with the seconds rounded to the nearest integer.
format_pace_rounded(pace) ==
    IF IsNull(pace) THEN Placeholder
    ELSE LET v == Val(pace)
             minutes == RatFloor(v)
             seconds == RatRound(Rat((v[1] - minutes * v[2]) * 60, v[2]))
         IN Decimal(minutes) \o <<":">> \o ZeroPadded2(seconds)

\* format_pace: int() truncates both the minutes and the seconds.
format_pace(pace) ==
    IF IsNull(pace) THEN Placeholder
    ELSE LET v == Val(pace)
             minutes == RatFloor(v)
             seconds == RatFloor(Rat((v[1] - minutes * v[2]) * 60, v[2]))
         IN Decimal(minutes) \o <<":">> \o ZeroPadded2(seconds)

\* f"{x:.1f}" and f"{x:.0f}": x to the nearest tenth, or unit, with its digits.
Fixed1(a) ==
    LET t == RatRound(Rat(a[1] * 10, a[2]))
    IN Decimal(t \div 10) \o <<".">> \o Decimal(t % 10)
Fixed0(a) == Decimal(RatRound(a))

---------------------------------------------------------------------------
\* Type families and personal bests.

\* filter_by_type: the rows whose type is in the family, labels kept.  A frame
\* without a "type" column (the empty frame has no column) raises KeyError.
TypeGroup(t) ==
    IF t = "Ride" THEN {"Ride", "VirtualRide"}
    ELSE IF t = "Run" THEN {"Run", "VirtualRun"}
    ELSE {t}

RECURSIVE SelectRows(_, _, _)
SelectRows(rows, keep, n) ==
    IF n = 0 THEN <<>>
    ELSE IF n \in keep THEN Append(SelectRows(rows, keep, n - 1), rows[n])
    ELSE SelectRows(rows, keep, n - 1)

Where(rows, keep) == SelectRows(rows, keep, Len(rows))

filter_by_type(frame, t) ==
    IF "type" \notin frame.columns THEN Raised("KeyError")
    ELSE [status |-> "ok",
          columns |-> frame.columns,
          rows |-> Where(frame.rows,
                         {i \in DOMAIN frame.rows :
                            /\ NotNull(frame.rows[i]["type"])
                            /\ Val(frame.rows[i]["type"]) \in TypeGroup(t)})]

\* The cells of the integer columns, as fractions, for comparison.
IntColumns == {"total_elevation_gain", "max_speed", "average_watts"}
Num(row, col) ==
    IF col \in IntColumns /\ NotNull(row[col])
    THEN Some(RatInt(Val(row[col])))
    ELSE row[col]

\* dropna(subset=[col]).
DropNa(rows, col) == Where(rows, {i \in DOMAIN rows : NotNull(rows[i][col])})
\* rows[rows[col] > 0]: a missing cell compares False.
Positive(rows, col) ==
    Where(rows, {i \in DOMAIN rows :
                    NotNull(rows[i][col]) /\ RatLess(RatInt(0), Val(Num(rows[i], col)))})

\* idxmin / idxmax: missing cells are skipped and the first row holding the
\* extreme value is taken; 0 stands for the failure on no value at all
\* (every cell missing): idxmax raises ValueError, or returns NaN on which
\* .loc raises KeyError, by the version of pandas.
IdxMin(rows, col) ==
    LET have == {i \in DOMAIN rows : NotNull(rows[i][col])}
        least == {i \in have :
                    \A j \in have : ~RatLess(Val(Num(rows[j], col)), Val(Num(rows[i], col)))}
    IN IF have = {} THEN 0
       ELSE CHOOSE i \in least : \A j \in least : i <= j

IdxMax(rows, col) ==
    LET have == {i \in DOMAIN rows : NotNull(rows[i][col])}
        most == {i \in have :
                    \A j \in have : ~RatLess(Val(Num(rows[i], col)), Val(Num(rows[j], col)))}
    IN IF have = {} THEN 0
       ELSE CHOOSE i \in most : \A j \in most : i <= j

\* One personal best: the display value, the date and name of the source row,
\* and row, the label of the row .loc selected (rows are labelled from 1 here,
\* from 0 in the RangeIndex of the frame).
Best(frame, r, value) ==
    [value |-> value,
     date |-> r["start_date_local"],
     name |-> IF "name" \in frame.columns THEN r["name"] ELSE Some(""),
     row |-> r["index"]]

NoBests == [k \in {} |-> None]

\* Lines 204-207: the longest effort as hours and minutes.
EffortString(mtm) ==
    LET hrs == RatFloor(RatDivInt(mtm, 60))
        mins == RatFloor(mtm) % 60
    IN IF hrs > 0
       THEN Decimal(hrs) \o <<"h", " ">> \o Decimal(mins) \o <<"m">>
       ELSE Decimal(mins) \o <<"m">>

\* Lines 192-202 and 239-249: the most climbing of a family.
MostClimbing(frame, rows) ==
    LET with_elev == Positive(DropNa(rows, "total_elevation_gain"),
                              "total_elevation_gain")
        r == with_elev[IdxMax(with_elev, "total_elevation_gain")]
    IN IF "total_elevation_gain" \in frame.columns /\ with_elev # <<>>
       THEN "most_climbing" :>
               Best(frame, r, Fixed0(RatInt(Val(r["total_elevation_gain"]))) \o <<" m">>)
       ELSE NoBests

\* Lines 175-222.  idxmax of a column with no value raises.
RunsRaise(runs) ==
    /\ runs # <<>>
    /\ \/ IdxMax(runs, "distance_km") = 0
       \/ IdxMax(runs, "moving_time_min") = 0

RunBests(frame, runs) ==
    LET valid_pace == DropNa(runs, "pace_min_per_km")
        fastest_run == valid_pace[IdxMin(valid_pace, "pace_min_per_km")]
        longest_run == runs[IdxMax(runs, "distance_km")]
        longest_time == runs[IdxMax(runs, "moving_time_min")]
        runs_5k == Where(valid_pace,
                         {i \in DOMAIN valid_pace :
                            ~RatLess(Val(valid_pace[i]["distance_km"]), RatInt(5))})
        best_5k == runs_5k[IdxMin(runs_5k, "pace_min_per_km")]
    IN IF runs = <<>> THEN NoBests
       ELSE (IF valid_pace # <<>> /\ runs_5k # <<>>
             THEN "best_5k_pace" :>
                     Best(frame, best_5k, format_pace(best_5k["pace_min_per_km"]))
             ELSE NoBests)
            @@ ("longest_effort" :>
                   Best(frame, longest_time,
                        EffortString(Val(longest_time["moving_time_min"]))))
            @@ MostClimbing(frame, runs)
            @@ ("longest_run" :>
                   Best(frame, longest_run,
                        Fixed1(Val(longest_run["distance_km"])) \o <<" km">>))
            @@ (IF valid_pace # <<>>
                THEN "fastest_pace" :>
                        Best(frame, fastest_run,
                             format_pace(fastest_run["pace_min_per_km"]))
                ELSE NoBests)

\* Lines 224-273.
RidesRaise(rides) ==
    /\ rides # <<>>
    /\ \/ IdxMax(rides, "speed_kmh") = 0
       \/ IdxMax(rides, "distance_km") = 0

RideBests(frame, rides) ==
    LET fastest_ride == rides[IdxMax(rides, "speed_kmh")]
        longest_ride == rides[IdxMax(rides, "distance_km")]
        with_speed == Positive(DropNa(rides, "max_speed"), "max_speed")
        top_speed == with_speed[IdxMax(with_speed, "max_speed")]
        with_power == Positive(DropNa(rides, "average_watts"), "average_watts")
        best_power == with_power[IdxMax(with_power, "average_watts")]
    IN IF rides = <<>> THEN NoBests
       ELSE (IF "average_watts" \in frame.columns /\ with_power # <<>>
             THEN "best_avg_power" :>
                     Best(frame, best_power,
                          Fixed0(RatInt(Val(best_power["average_watts"]))) \o <<" W">>)
             ELSE NoBests)
            @@ (IF "max_speed" \in frame.columns /\ with_speed # <<>>
                THEN "top_speed" :>
                        Best(frame, top_speed,
                             Fixed1(Rat(Val(top_speed["max_speed"]) * 36, 10))
                                \o <<" km/h">>)
                ELSE NoBests)
            @@ MostClimbing(frame, rides)
            @@ ("longest_ride" :>
                   Best(frame, longest_ride,
                        Fixed1(Val(longest_ride["distance_km"])) \o <<" km">>))
            @@ ("fastest_ride" :>
                   Best(frame, fastest_ride,
                        Fixed1(Val(fastest_ride["speed_kmh"])) \o <<" km/h">>))

\* get_personal_bests.  The ride entries are written after the run entries
\* into the same dict, so a ride entry replaces a run entry of the same key.
get_personal_bests(frame, t) ==
    LET show_run == t \in {"All", "Run"}
        show_ride == t \in {"All", "Ride"}
        runs == IF show_run THEN filter_by_type(frame, "Run") ELSE EmptyFrame
        rides == IF show_ride THEN filter_by_type(frame, "Ride") ELSE EmptyFrame
    IN IF runs.status # "ok" THEN [status |-> runs.status, bests |-> NoBests]
       ELSE IF rides.status # "ok" THEN [status |-> rides.status, bests |-> NoBests]
       ELSE IF RunsRaise(runs.rows) \/ RidesRaise(rides.rows)
       THEN [status |-> "ValueError", bests |-> NoBests]
       ELSE [status |-> "ok",
             bests |-> RideBests(frame, rides.rows) @@ RunBests(frame, runs.rows)]

---------------------------------------------------------------------------
\* The Strava client (src/src/strava_client.py).

\* get_all_activities asks for pages of 200.
PerPage == 200

\* What the token endpoint may grant, what a page may hold (activities are
\* told apart by a number), and the after / before bounds of a call (epoch
\* seconds, None when not given).
Grants == {[access_token |-> "a1", refresh_token |-> "r1"],
           [access_token |-> "a2", refresh_token |-> "r2"]}
Lifetimes == {0, TokenLife}
PageBodies == {<<>>, <<1>>, <<2, 3>>}
Windows == {None, Some(1)}

NoMsg == [kind |-> "none"]

\* get_activities: the query of one page; after and before are sent only
\* when given.
Params(p) == [per_page |-> PerPage, page |-> p, after |-> after, before |-> before]

\* _get: the GET carries the access token as its Bearer.
GetRequest(token, p) == [kind |-> "GET", bearer |-> token, params |-> Params(p)]

\* _ensure_token: the POST to the token endpoint carries the refresh token.
RefreshRequest == [kind |-> "POST", refresh_token |-> refresh_token]

\* _ensure_token, line 24: the token is kept when it is set and not expired.
TokenSet == NotNull(access_token)
TokenValid == NotNull(access_token) /\ now < token_expires_at

\* get_all_activities, line 93: all_activities.extend(activities).
Prepended(all, body) == body \o all
Extended(all, body) == all \o body

\* StravaClient.__init__ and the state before any call.
ClientInit ==
    /\ access_token = None
    /\ refresh_token = "r1"
    /\ token_expires_at = 0
    /\ now = 0
    /\ cpc = "idle"
    /\ page = 0
    /\ all_activities = <<>>
    /\ after = None
    /\ before = None
    /\ request = NoMsg
    /\ response = NoMsg
    /\ result = None
    /\ requested = <<>>
    /\ served = <<>>

---------------------------------------------------------------------------
\* The pipeline, in the order src/app.py calls it: the batch is loaded, turned
\* into a frame, summarised by week and by month, scanned for personal bests
\* under the chosen filter, and its pace column is rendered.

NoResult == [status |-> "unset", bests |-> NoBests]

Init ==
    /\ activities = <<>>
    /\ pc = "load"
    /\ df = Unset
    /\ weekly = Unset
    /\ monthly = Unset
    /\ activity_type = "All"
    /\ pbs = NoResult
    /\ display = <<>>
    /\ ClientInit

\* One more raw record arrives in the batch.
LoadActivity(r) ==
    /\ pc = "load"
    /\ Len(activities) < MaxBatch
    /\ activities' = Append(activities, r)
    /\ UNCHANGED <<pc, df, weekly, monthly, activity_type, pbs, display>>
    /\ UNCHANGED clientVars

ActivitiesToDataframe ==
    /\ pc = "load"
    /\ df' = activities_to_dataframe(activities)
    /\ pc' = IF df'.status = "ok" THEN "frame" ELSE "failed"
    /\ UNCHANGED <<activities, weekly, monthly, activity_type, pbs, display>>
    /\ UNCHANGED clientVars

WeeklySummary ==
    /\ pc = "frame"
    /\ weekly' = weekly_summary(df)
    /\ pc' = "weekly"
    /\ UNCHANGED <<activities, df, monthly, activity_type, pbs, display>>
    /\ UNCHANGED clientVars

MonthlySummary ==
    /\ pc = "weekly"
    /\ monthly' = monthly_summary(df)
    /\ pc' = "monthly"
    /\ UNCHANGED <<activities, df, weekly, activity_type, pbs, display>>
    /\ UNCHANGED clientVars

GetPersonalBests(t) ==
    /\ pc = "monthly"
    /\ activity_type' = t
    /\ pbs' = get_personal_bests(df, t)
    /\ pc' = "bests"
    /\ UNCHANGED <<activities, df, weekly, monthly, display>>
    /\ UNCHANGED clientVars

\* src/app.py:265: format_pace applied to the pace column.
DisplayPaces ==
    /\ pc = "bests"
    /\ display' = [i \in DOMAIN df.rows |-> format_pace(df.rows[i]["pace_min_per_km"])]
    /\ pc' = "shown"
    /\ UNCHANGED <<activities, df, weekly, monthly, activity_type, pbs>>
    /\ UNCHANGED clientVars

Next ==
    \/ \E r \in RawRecords : LoadActivity(r)
    \/ ActivitiesToDataframe
    \/ WeeklySummary
    \/ MonthlySummary
    \/ \E t \in ActivityTypes : GetPersonalBests(t)
    \/ DisplayPaces

Spec == Init /\ [][Next]_vars

---------------------------------------------------------------------------
\* The client's steps.  A step runs the code from one network event to the
\* next: up to the sending of a request, or from the arrival of a response.

\* get_all_activities is called (lines 84-86); the client object is kept
\* from one call to the next.
GetAllActivities(a, b) ==
    /\ cpc \in {"idle", "returned", "raised"}
    /\ after' = a
    /\ before' = b
    /\ all_activities' = <<>>
    /\ page' = 1
    /\ result' = None
    /\ requested' = <<>>
    /\ served' = <<>>
    /\ cpc' = "get"
    /\ UNCHANGED <<access_token, refresh_token, token_expires_at, now,
                   request, response>>
    /\ UNCHANGED dataVars

\* get_activities(per_page=200, page=page) -> _get -> _ensure_token: with a
\* valid token the GET is sent at once, else the refresh is posted.
Get ==
    /\ cpc = "get"
    /\ page <= MaxPages
    /\ IF TokenValid
       THEN /\ request' = GetRequest(access_token, page)
            /\ requested' = Append(requested, Params(page))
            /\ cpc' = "await_get"
       ELSE /\ request' = RefreshRequest
            /\ cpc' = "await_refresh"
            /\ UNCHANGED requested
    /\ UNCHANGED <<access_token, refresh_token, token_expires_at, now, page,
                   all_activities, after, before, response, result, served>>
    /\ UNCHANGED dataVars

\* The token endpoint answers the refresh with a grant.
UpstreamGrants(g, life) ==
    /\ request.kind = "POST"
    /\ request' = NoMsg
    /\ response' = [kind |-> "token",
                    access_token |-> g.access_token,
                    refresh_token |-> g.refresh_token,
                    expires_at |-> now + life]
    /\ UNCHANGED <<access_token, refresh_token, token_expires_at, now, cpc,
                   page, all_activities, after, before, result, requested,
                   served>>
    /\ UNCHANGED dataVars

\* The API answers the GET with a page of activities.
UpstreamServes(body) ==
    /\ request.kind = "GET"
    /\ request' = NoMsg
    /\ response' = [kind |-> "page", body |-> body]
    /\ UNCHANGED <<access_token, refresh_token, token_expires_at, now, cpc,
                   page, all_activities, after, before, result, requested,
                   served>>
    /\ UNCHANGED dataVars

\* A request fails: an error status (raise_for_status) or no answer within
\* the timeout of 10 seconds.
UpstreamFails ==
    /\ request.kind \in {"POST", "GET"}
    /\ request' = NoMsg
    /\ response' = [kind |-> "error"]
    /\ UNCHANGED <<access_token, refresh_token, token_expires_at, now, cpc,
                   page, all_activities, after, before, result, requested,
                   served>>
    /\ UNCHANGED dataVars

\* _ensure_token, lines 37-42, then _get, lines 46-51: a failed refresh
\* raises; a grant is stored and the GET is sent with the new token.
RefreshReturns ==
    /\ cpc = "await_refresh"
    /\ response.kind # "none"
    /\ response' = NoMsg
    /\ IF response.kind = "error"
       THEN /\ cpc' = "raised"
            /\ UNCHANGED <<access_token, refresh_token, token_expires_at,
                           request, requested>>
       ELSE /\ access_token' = Some(response.access_token)
            /\ refresh_token' = response.refresh_token
            /\ token_expires_at' = response.expires_at
            /\ request' = GetRequest(access_token', page)
            /\ requested' = Append(requested, Params(page))
            /\ cpc' = "await_get"
    /\ UNCHANGED <<now, page, all_activities, after, before, result, served>>
    /\ UNCHANGED dataVars

\* _get, lines 52-54, then get_all_activities, lines 90-95: a failed GET
\* raises; an empty page ends the loop and the call returns; any other page
\* is added and the next page is due.
PageReturns ==
    /\ cpc = "await_get"
    /\ response.kind # "none"
    /\ response' = NoMsg
    /\ IF response.kind = "error"
       THEN /\ cpc' = "raised"
            /\ UNCHANGED <<page, all_activities, result, served>>
       ELSE /\ served' = Append(served, response.body)
            /\ IF response.body = <<>>
               THEN /\ result' = Some(all_activities)
                    /\ cpc' = "returned"
                    /\ UNCHANGED <<page, all_activities>>
               ELSE /\ all_activities' = Extended(all_activities, response.body)
                    /\ page' = page + 1
                    /\ cpc' = "get"
                    /\ UNCHANGED result
    /\ UNCHANGED <<access_token, refresh_token, token_expires_at, now, after,
                   before, request, requested>>
    /\ UNCHANGED dataVars

\* A second passes.
Tick ==
    /\ now < MaxTime
    /\ now' = now + 1
    /\ UNCHANGED <<access_token, refresh_token, token_expires_at, cpc, page,
                   all_activities, after, before, request, response, result,
                   requested, served>>
    /\ UNCHANGED dataVars

Upstream ==
    \/ \E g \in Grants : \E life \in Lifetimes : UpstreamGrants(g, life)
    \/ \E body \in PageBodies : UpstreamServes(body)
    \/ UpstreamFails

NextClient ==
    \/ \E a \in Windows : \E b \in Windows : GetAllActivities(a, b)
    \/ Get
    \/ Upstream
    \/ RefreshReturns
    \/ PageReturns
    \/ Tick

SpecClient == Init /\ [][NextClient]_vars

\* The client runs on once a response has arrived, and every request is
\* answered or fails within its timeout.
FairClient ==
    /\ SpecClient
    /\ WF_vars(Get)
    /\ WF_vars(Upstream)
    /\ WF_vars(RefreshReturns)
    /\ WF_vars(PageReturns)

---------------------------------------------------------------------------
\* Properties.

\* The canonical name and the provider alias of each reconciled field.
RequiredPairs ==
    {<<"distance", "icu_distance">>, <<"moving_time", "icu_moving_time">>,
     <<"elapsed_time", "icu_elapsed_time">>,
     <<"total_elevation_gain", "icu_total_elevation_gain">>}
ReconciledPairs == RequiredPairs \cup {<<"average_watts", "icu_average_watts">>}

FrameReturned == pc \notin {"load", "failed"}
BestsReturned == pc \in {"bests", "shown"}

RunFamily == {"Run", "VirtualRun"}
RideFamily == {"Ride", "VirtualRide"}
InFamily(r, family) == NotNull(r["type"]) /\ Val(r["type"]) \in family

\* C1: in the frame of a non-empty batch, a record that carries neither a
\* required field nor its icu_ alias has that field equal to 0, whatever the
\* other records of the batch carry.
C1_MissingFieldIsZero ==
    FrameReturned =>
        \A i \in DOMAIN activities : \A p \in RequiredPairs :
            (IsNull(activities[i][p[1]]) /\ IsNull(activities[i][p[2]]))
                => df.rows[i][p[1]] = Some(0)

\* C2: reconciliation is per record, first present wins: the frame holds the
\* record's canonical field if the record has it, else the record's alias if
\* the record has that.
C2_FirstPresentWinsPerRecord ==
    FrameReturned =>
        \A i \in DOMAIN activities : \A p \in ReconciledPairs :
            /\ NotNull(activities[i][p[1]])
                  => df.rows[i][p[1]] = activities[i][p[1]]
            /\ (IsNull(activities[i][p[1]]) /\ NotNull(activities[i][p[2]]))
                  => df.rows[i][p[1]] = activities[i][p[2]]

\* C3: on the empty table the summaries return the empty table and
\* get_personal_bests returns the empty mapping, under every filter.
C3_EmptyInputNeverFails ==
    (BestsReturned /\ activities = <<>>) =>
        /\ weekly = EmptyFrame
        /\ monthly = EmptyFrame
        /\ pbs = [status |-> "ok", bests |-> NoBests]

\* The rows of a family with a defined, strictly positive elevation gain.
Climbers(family) ==
    {i \in DOMAIN df.rows :
        /\ InFamily(df.rows[i], family)
        /\ NotNull(df.rows[i]["total_elevation_gain"])
        /\ Val(df.rows[i]["total_elevation_gain"]) > 0}

\* C4: when some run has a strictly positive elevation gain and the filter
\* enables runs, a returned mapping has most_climbing taken from a run of
\* maximum gain among those runs, also when rides climb too.
C4_RunMostClimbingSurfaced ==
    (BestsReturned /\ pbs.status = "ok" /\ activity_type \in {"All", "Run"}
        /\ Climbers(RunFamily) # {}) =>
        /\ "most_climbing" \in DOMAIN pbs.bests
        /\ pbs.bests["most_climbing"].row \in Climbers(RunFamily)
        /\ \A j \in Climbers(RunFamily) :
              Val(df.rows[j]["total_elevation_gain"])
                 <= Val(df.rows[pbs.bests["most_climbing"].row]["total_elevation_gain"])

\* The number a string of decimal digits writes.
DigitValue(c) == CHOOSE k \in 0..9 : DigitChars[k + 1] = c
RECURSIVE ParseNat(_)
ParseNat(str) ==
    IF str = <<>> THEN 0
    ELSE ParseNat(SubSeq(str, 1, Len(str) - 1)) * 10 + DigitValue(str[Len(str)])

IsDigits(str) == \A k \in DOMAIN str : \E d \in DOMAIN DigitChars : DigitChars[d] = str[k]

\* str reads "m:ss" with exactly two digits of seconds, writing m and s.
ReadsAs(str, m, s) ==
    /\ Len(str) >= 4
    /\ str[Len(str) - 2] = ":"
    /\ IsDigits(SubSeq(str, 1, Len(str) - 3))
    /\ IsDigits(SubSeq(str, Len(str) - 1, Len(str)))
    /\ ParseNat(SubSeq(str, 1, Len(str) - 3)) = m
    /\ ParseNat(SubSeq(str, Len(str) - 1, Len(str))) = s

\* The seconds of a pace v = <<n, d>>, times d: (v - floor(v)) * 60 * d.
SecondsTimesDen(v) == (v[1] - (v[1] \div v[2]) * v[2]) * 60

\* C5 as stated: a defined pace renders as floor(v) minutes and
\* round((v - floor(v)) * 60) seconds on two digits, an undefined one as "--:--".
C5_SecondsRounded ==
    pc = "shown" =>
        \A i \in DOMAIN display :
            LET pace == df.rows[i]["pace_min_per_km"] IN
            IF IsNull(pace) THEN display[i] = Placeholder
            ELSE \E s \in 0..60 :
                    /\ ReadsAs(display[i], Val(pace)[1] \div Val(pace)[2], s)
                    /\ s = RatRound(<<SecondsTimesDen(Val(pace)), Val(pace)[2]>>)

\* C5, amended: a defined pace v >= 0 renders as floor(v) minutes and the
\* integer part of (v - floor(v)) * 60 as seconds on two digits (4.5 renders
\* as "4:30"); an undefined pace renders as "--:--".
C5_SecondsTruncated ==
    pc = "shown" =>
        \A i \in DOMAIN display :
            LET pace == df.rows[i]["pace_min_per_km"] IN
            IF IsNull(pace) THEN display[i] = Placeholder
            ELSE /\ \E s \in 0..59 :
                      /\ ReadsAs(display[i], Val(pace)[1] \div Val(pace)[2], s)
                      /\ s * Val(pace)[2] <= SecondsTimesDen(Val(pace))
                      /\ SecondsTimesDen(Val(pace)) < (s + 1) * Val(pace)[2]
                 /\ Val(pace) = <<9, 2>> => display[i] = <<"4", ":", "3", "0">>

\* A pace whose seconds have a fraction of a half or more is shown beside an
\* undefined pace.
C5_Witness ==
    /\ pc = "shown"
    /\ \E i \in DOMAIN display :
          /\ NotNull(df.rows[i]["pace_min_per_km"])
          /\ LET v == Val(df.rows[i]["pace_min_per_km"])
             IN 2 * (SecondsTimesDen(v) % v[2]) >= v[2]
    /\ \E j \in DOMAIN display : IsNull(df.rows[j]["pace_min_per_km"])

\* The rows of the frame in bucket k of column key.
InBucket(key, k) == {i \in DOMAIN df.rows : df.rows[i][key] = Some(k)}

CountsEveryRecord(summary, key) ==
    /\ \A g \in DOMAIN summary.rows :
          summary.rows[g].activity_count
             = Cardinality(InBucket(key, summary.rows[g].bucket))
    /\ IntSum([g \in DOMAIN summary.rows |-> summary.rows[g].activity_count])
          = Len(activities)

\* C6: in every row of a returned summary, activity_count is the number of
\* records of the bucket, and the counts add up to the size of the batch,
\* also when some records have no id.
C6_CountIsBucketSize ==
    /\ (pc \in {"weekly", "monthly", "bests", "shown"} /\ weekly.status = "ok")
          => CountsEveryRecord(weekly, "week_start")
    /\ (pc \in {"monthly", "bests", "shown"} /\ monthly.status = "ok")
          => CountsEveryRecord(monthly, "month")

Rides == {i \in DOMAIN df.rows : InFamily(df.rows[i], RideFamily)}
RidesWithSpeed == {i \in Rides : NotNull(df.rows[i]["speed_kmh"])}

\* C7: with a ride in the batch and a filter enabling rides,
\* get_personal_bests returns, and when some ride has a defined speed
\* fastest_ride is a ride of maximum speed among those; a ride of undefined
\* speed never makes the call fail.
C7_FastestRideSkipsUndefined ==
    (BestsReturned /\ activity_type \in {"All", "Ride"} /\ Rides # {}) =>
        /\ pbs.status = "ok"
        /\ RidesWithSpeed # {} =>
              /\ "fastest_ride" \in DOMAIN pbs.bests
              /\ pbs.bests["fastest_ride"].row \in RidesWithSpeed
              /\ \A j \in RidesWithSpeed :
                    ~RatLess(Val(df.rows[pbs.bests["fastest_ride"].row]["speed_kmh"]),
                             Val(df.rows[j]["speed_kmh"]))

\* p * q = r for fractions p, q and r.
RatProductIs(p, q, r) == p[1] * q[1] * r[2] = r[1] * p[2] * q[2]

\* C8: in every row of a returned frame, distance_km = 0 leaves the pace
\* undefined and moving_time = 0 leaves the speed undefined; with
\* distance_km > 0 the pace is (moving_time / 60) / distance_km and with
\* moving_time > 0 the speed is distance_km / (moving_time / 3600); and a
\* batch whose records all carry their local start is never failed, whatever
\* its distances and times.
C8_UndefinedPaceAndSpeed ==
    /\ FrameReturned =>
          \A i \in DOMAIN df.rows :
              LET r == df.rows[i] IN
              /\ r["distance_km"] = Some(RatInt(0)) => IsNull(r["pace_min_per_km"])
              /\ r["moving_time"] = Some(0) => IsNull(r["speed_kmh"])
              /\ (NotNull(r["distance_km"]) /\ NotNull(r["moving_time"])
                     /\ RatLess(RatInt(0), Val(r["distance_km"])))
                    => /\ NotNull(r["pace_min_per_km"])
                       /\ RatProductIs(Val(r["pace_min_per_km"]),
                                       Val(r["distance_km"]),
                                       <<Val(r["moving_time"]), 60>>)
              /\ (NotNull(r["distance_km"]) /\ NotNull(r["moving_time"])
                     /\ Val(r["moving_time"]) > 0)
                    => /\ NotNull(r["speed_kmh"])
                       /\ RatProductIs(Val(r["speed_kmh"]),
                                       <<Val(r["moving_time"]), 3600>>,
                                       Val(r["distance_km"]))
    /\ (pc # "load"
          /\ \A i \in DOMAIN activities : NotNull(activities[i]["start_date_local"]))
          => df.status = "ok"

\* A returned frame holds a zero-distance row with a speed and no pace, and a
\* zero-time row with a pace and no speed.
C8_Witness ==
    /\ FrameReturned
    /\ \E i \in DOMAIN df.rows :
          /\ df.rows[i]["distance_km"] = Some(RatInt(0))
          /\ IsNull(df.rows[i]["pace_min_per_km"])
          /\ NotNull(df.rows[i]["speed_kmh"])
    /\ \E j \in DOMAIN df.rows :
          /\ df.rows[j]["moving_time"] = Some(0)
          /\ IsNull(df.rows[j]["speed_kmh"])
          /\ NotNull(df.rows[j]["pace_min_per_km"])

\* The defined cells of a column of the frame, in row order.
RECURSIVE ColumnValues(_, _)
ColumnValues(col, n) ==
    IF n = 0 THEN <<>>
    ELSE IF NotNull(df.rows[n][col])
         THEN Append(ColumnValues(col, n - 1), Val(df.rows[n][col]))
         ELSE ColumnValues(col, n - 1)

TotalsAddUp(summary) ==
    RatSum([g \in DOMAIN summary.rows |-> summary.rows[g].total_distance_km])
       = RatSum(ColumnValues("distance_km", Len(df.rows)))

\* C9: for every enriched batch weekly_summary returns rows whose
\* total_distance_km add up to the distance_km of all records, and so does
\* monthly_summary.
C9_DistanceTotalsAddUp ==
    /\ pc \in {"weekly", "monthly", "bests", "shown"}
          => (weekly.status = "ok" /\ TotalsAddUp(weekly))
    /\ pc \in {"monthly", "bests", "shown"}
          => (monthly.status = "ok" /\ TotalsAddUp(monthly))

\* The defined paces of the rows of week k, in row order.
RECURSIVE WeekPaces(_, _)
WeekPaces(k, n) ==
    IF n = 0 THEN <<>>
    ELSE IF df.rows[n]["week_start"] = Some(k) /\ NotNull(df.rows[n]["pace_min_per_km"])
         THEN Append(WeekPaces(k, n - 1), Val(df.rows[n]["pace_min_per_km"]))
         ELSE WeekPaces(k, n - 1)

\* C10: for every enriched batch weekly_summary returns, for each week, an
\* avg_pace that is the sum of the defined paces of the week over their
\* number, and is undefined when the week has no defined pace.
C10_AvgPaceOverDefined ==
    pc \in {"weekly", "monthly", "bests", "shown"} =>
        /\ weekly.status = "ok"
        /\ \A g \in DOMAIN weekly.rows :
              LET paces == WeekPaces(weekly.rows[g].bucket, Len(df.rows)) IN
              IF paces = <<>> THEN IsNull(weekly.rows[g].avg_pace)
              ELSE /\ NotNull(weekly.rows[g].avg_pace)
                   /\ RatProductIs(Val(weekly.rows[g].avg_pace),
                                   RatInt(Len(paces)), RatSum(paces))

\* The properties of C9 and C10 for the summaries that returned: these hold,
\* so C9 and C10 fail only on the batches for which the summary raises.
SummariesRightWhenReturned ==
    /\ (pc \in {"weekly", "monthly", "bests", "shown"} /\ weekly.status = "ok")
          => /\ TotalsAddUp(weekly)
             /\ \A g \in DOMAIN weekly.rows :
                   LET paces == WeekPaces(weekly.rows[g].bucket, Len(df.rows)) IN
                   IF paces = <<>> THEN IsNull(weekly.rows[g].avg_pace)
                   ELSE /\ NotNull(weekly.rows[g].avg_pace)
                        /\ RatProductIs(Val(weekly.rows[g].avg_pace),
                                        RatInt(Len(paces)), RatSum(paces))
    /\ (pc \in {"monthly", "bests", "shown"} /\ monthly.status = "ok")
          => TotalsAddUp(monthly)

---------------------------------------------------------------------------
\* The categories of personal best: the family, the key in the mapping, the
\* column compared, whether the least or the greatest value wins, whether
\* only strictly positive values qualify and whether only runs of at least
\* 5 km qualify.
Category(fam, key, col, least, positive, fivek) ==
    [fam |-> fam, key |-> key, col |-> col, least |-> least,
     positive |-> positive, fivek |-> fivek]

Categories ==
    {Category("Run", "fastest_pace", "pace_min_per_km", TRUE, FALSE, FALSE),
     Category("Run", "longest_run", "distance_km", FALSE, FALSE, FALSE),
     Category("Run", "most_climbing", "total_elevation_gain", FALSE, TRUE, FALSE),
     Category("Run", "longest_effort", "moving_time_min", FALSE, FALSE, FALSE),
     Category("Run", "best_5k_pace", "pace_min_per_km", TRUE, FALSE, TRUE),
     Category("Ride", "fastest_ride", "speed_kmh", FALSE, FALSE, FALSE),
     Category("Ride", "longest_ride", "distance_km", FALSE, FALSE, FALSE),
     Category("Ride", "most_climbing", "total_elevation_gain", FALSE, TRUE, FALSE),
     Category("Ride", "top_speed", "max_speed", FALSE, TRUE, FALSE),
     Category("Ride", "best_avg_power", "average_watts", FALSE, TRUE, FALSE)}

Enabled(c) == activity_type \in {"All", c.fam}

\* The value of row i in the column of category c, as a fraction.
Score(c, i) == Val(Num(df.rows[i], c.col))

\* The rows that qualify for category c.
Qualifying(c) ==
    {i \in DOMAIN df.rows :
        /\ InFamily(df.rows[i], TypeGroup(c.fam))
        /\ NotNull(df.rows[i][c.col])
        /\ c.positive => RatLess(RatInt(0), Score(c, i))
        /\ c.fivek => /\ NotNull(df.rows[i]["distance_km"])
                      /\ ~RatLess(Val(df.rows[i]["distance_km"]), RatInt(5))}

\* The qualifying rows that hold the winning value of category c.
Winners(c) ==
    {i \in Qualifying(c) :
        \A j \in Qualifying(c) :
            IF c.least THEN ~RatLess(Score(c, j), Score(c, i))
                       ELSE ~RatLess(Score(c, i), Score(c, j))}

Earliest(S) == CHOOSE i \in S : \A j \in S : i <= j

\* The entry of category c is taken from row i.
SurfacedFrom(c, i) ==
    /\ pbs.status = "ok"
    /\ c.key \in DOMAIN pbs.bests
    /\ pbs.bests[c.key].row = i
    /\ pbs.bests[c.key].date = df.rows[i]["start_date_local"]
    /\ pbs.bests[c.key].name
          = (IF "name" \in df.columns THEN df.rows[i]["name"] ELSE Some(""))

\* C11: for every category whose family the filter enables, when several
\* qualifying records share the winning value, the entry of the category
\* carries the name and date of the earliest of them in input order.
C11_EarliestOfTiedSurfaced ==
    BestsReturned =>
        \A c \in Categories :
            (Enabled(c) /\ Cardinality(Winners(c)) >= 2)
                => SurfacedFrom(c, Earliest(Winners(c)))

\* The same of the entries of a mapping that was returned: each is taken from
\* the earliest winner of a category of its key.  This holds, so C11 fails
\* only where the call raises or a ride entry replaces the run entry.
EntriesAreEarliestWinners ==
    (BestsReturned /\ pbs.status = "ok") =>
        \A k \in DOMAIN pbs.bests :
            \E c \in Categories :
                /\ c.key = k /\ Enabled(c) /\ Winners(c) # {}
                /\ SurfacedFrom(c, Earliest(Winners(c)))

Best5k == Category("Run", "best_5k_pace", "pace_min_per_km", TRUE, FALSE, TRUE)

\* The batch of the example: a run of 10000 m in 2700 s, then one of 5000 m
\* in 1200 s.
ExampleBatch ==
    /\ Len(activities) = 2
    /\ \A i \in 1..2 : activities[i]["type"] = Some("Run")
    /\ activities[1]["distance"] = Some(10000) /\ activities[1]["moving_time"] = Some(2700)
    /\ activities[2]["distance"] = Some(5000) /\ activities[2]["moving_time"] = Some(1200)

ExampleBests ==
    /\ pbs.status = "ok"
    /\ pbs.bests["fastest_pace"].value = <<"4", ":", "0", "0">>
    /\ pbs.bests["fastest_pace"].row = 2
    /\ pbs.bests["longest_run"].value = <<"1", "0", ".", "0", " km">>
    /\ pbs.bests["longest_run"].row = 1
    /\ pbs.bests["best_5k_pace"].value = <<"4", ":", "0", "0">>

\* C12: under a filter enabling runs, best_5k_pace is in the mapping exactly
\* when some run has a defined pace and distance_km >= 5.0, and is then the
\* least pace among those runs; the example batch gives fastest_pace "4:00",
\* the 10.0 km run as longest_run and best_5k_pace "4:00".
C12_Best5kExactlyWhenQualifying ==
    (BestsReturned /\ activity_type \in {"All", "Run"}) =>
        /\ Qualifying(Best5k) # {}
              => /\ SurfacedFrom(Best5k, Earliest(Winners(Best5k)))
                 /\ pbs.bests["best_5k_pace"].value
                       = format_pace(df.rows[Earliest(Winners(Best5k))]["pace_min_per_km"])
        /\ Qualifying(Best5k) = {}
              => ~(pbs.status = "ok" /\ "best_5k_pace" \in DOMAIN pbs.bests)
        /\ ExampleBatch => ExampleBests

\* The same of the mappings that were returned; this holds.
Best5kRightWhenReturned ==
    (BestsReturned /\ pbs.status = "ok" /\ activity_type \in {"All", "Run"}) =>
        /\ "best_5k_pace" \in DOMAIN pbs.bests <=> Qualifying(Best5k) # {}
        /\ Qualifying(Best5k) # {}
              => SurfacedFrom(Best5k, Earliest(Winners(Best5k)))
        /\ ExampleBatch => ExampleBests

\* The call of activities_to_dataframe has been made, returned or raised.
FrameCalled == pc # "load"

\* The records that carry at least one of the two start fields.
Timestamped(i) ==
    NotNull(activities[i]["start_date_local"]) \/ NotNull(activities[i]["start_date"])

\* The record's own resolution: its start_date_local, else its start_date.
OwnStart(i) ==
    IF NotNull(activities[i]["start_date_local"])
    THEN activities[i]["start_date_local"]
    ELSE activities[i]["start_date"]

\* C13: timestamp resolution is per record: when every record of a non-empty
\* batch carries start_date_local or start_date, the batch is processed and
\* each row's start_date_local is the record's own start_date_local, else its
\* own start_date, never null, mixed batches included.
C13_TimestampPerRecord ==
    (FrameCalled /\ activities # <<>>
        /\ \A i \in DOMAIN activities : Timestamped(i)) =>
        /\ df.status = "ok"
        /\ \A i \in DOMAIN activities :
              /\ NotNull(df.rows[i]["start_date_local"])
              /\ df.rows[i]["start_date_local"] = OwnStart(i)

\* What the code does hold to: a batch whose records all carry start_date_local,
\* or none of which does while all carry start_date, is processed per record.
UniformTimestampsResolved ==
    (FrameCalled /\ activities # <<>>
        /\ (\/ \A i \in DOMAIN activities : NotNull(activities[i]["start_date_local"])
            \/ \A i \in DOMAIN activities :
                  IsNull(activities[i]["start_date_local"])
                  /\ NotNull(activities[i]["start_date"]))) =>
        /\ df.status = "ok"
        /\ \A i \in DOMAIN activities : df.rows[i]["start_date_local"] = OwnStart(i)

BestPower == Category("Ride", "best_avg_power", "average_watts", FALSE, TRUE, FALSE)

\* The best_avg_power entry is the maximum over the rides with defined,
\* strictly positive average_watts, rendered in whole watts.
PowerEntryIsMaximum ==
    /\ SurfacedFrom(BestPower, Earliest(Winners(BestPower)))
    /\ pbs.bests["best_avg_power"].value
          = Fixed0(Score(BestPower, Earliest(Winners(BestPower)))) \o <<" W">>

\* C14: under a filter that enables rides, best_avg_power is present exactly
\* when some ride has defined, strictly positive average_watts, and is then
\* the maximum over those rides; a ride without such a value is never its
\* source.
C14_BestPowerExactlyWhenDefined ==
    (BestsReturned /\ activity_type \in {"All", "Ride"}) =>
        /\ Qualifying(BestPower) # {} => PowerEntryIsMaximum
        /\ Qualifying(BestPower) = {}
              => ~(pbs.status = "ok" /\ "best_avg_power" \in DOMAIN pbs.bests)
        /\ (pbs.status = "ok" /\ "best_avg_power" \in DOMAIN pbs.bests)
              => pbs.bests["best_avg_power"].row \in Qualifying(BestPower)

\* The same of a mapping that was returned.
BestPowerRightWhenReturned ==
    (BestsReturned /\ pbs.status = "ok" /\ activity_type \in {"All", "Ride"}) =>
        /\ Qualifying(BestPower) # {} => PowerEntryIsMaximum
        /\ Qualifying(BestPower) = {} => "best_avg_power" \notin DOMAIN pbs.bests
        /\ "best_avg_power" \in DOMAIN pbs.bests
              => pbs.bests["best_avg_power"].row \in Qualifying(BestPower)

\* A returned mapping whose batch has a ride with power and a ride without.
PowerMixedReturned ==
    /\ BestsReturned /\ pbs.status = "ok" /\ activity_type \in {"All", "Ride"}
    /\ Qualifying(BestPower) # {}
    /\ \E i \in DOMAIN df.rows :
          InFamily(df.rows[i], RideFamily) /\ i \notin Qualifying(BestPower)

---------------------------------------------------------------------------
\* Properties of the client.

RECURSIVE Flatten(_)
Flatten(pages) ==
    IF pages = <<>> THEN <<>> ELSE pages[1] \o Flatten(Tail(pages))

Front(seq) == SubSeq(seq, 1, Len(seq) - 1)

\* The k-th GET of a call asks for page k, 200 to the page, with the after
\* and before of the call.
PagesInOrder ==
    /\ \A k \in DOMAIN requested :
          requested[k] = [per_page |-> 200, page |-> k,
                          after |-> after, before |-> before]
    /\ Len(served) <= Len(requested)
    /\ Len(requested) <= Len(served) + 1
    /\ request.kind = "GET" => request.params = requested[Len(requested)]

\* The call has returned exactly when the page received last is empty, and
\* no page received before it is.
StopsAtFirstEmpty ==
    /\ \A k \in DOMAIN served : k < Len(served) => served[k] # <<>>
    /\ cpc = "returned" <=> (served # <<>> /\ served[Len(served)] = <<>>)
    /\ cpc = "returned" => (request = NoMsg /\ Len(requested) = Len(served))

\* What is returned is the pages before the empty one, one after the other;
\* a call that has not returned, one that raised included, has no result.
ReturnsEarlierPages ==
    /\ cpc = "returned" => result = Some(Flatten(Front(served)))
    /\ cpc # "returned" => result = None

EmptyPageArrived ==
    cpc = "await_get" /\ response.kind = "page" /\ response.body = <<>>

FailureArrived ==
    cpc \in {"await_get", "await_refresh"} /\ response.kind = "error"

\* C15: get_all_activities asks for pages 1, 2, 3, ... in order, 200 to the
\* page and with the same after / before; it returns exactly at the first
\* empty page, with the earlier pages concatenated in page order; once an
\* empty page arrives the call returns, and once a request fails the call
\* raises with no result.
C15_PagesUntilFirstEmpty ==
    /\ [](PagesInOrder /\ StopsAtFirstEmpty /\ ReturnsEarlierPages)
    /\ EmptyPageArrived ~> (cpc = "returned")
    /\ FailureArrived ~> (cpc = "raised" /\ result = None)

\* A call that returned two different pages and then met the empty one.
C15_Witness ==
    /\ cpc = "returned"
    /\ Len(served) = 3
    /\ served[1] # served[2]
    /\ result = Some(served[1] \o served[2])
    /\ Len(requested) = 3

TokenFields == <<access_token, refresh_token, token_expires_at>>

\* The step sends a request of kind k.
Sends(k) == request.kind # k /\ request'.kind = k

\* The step takes in a response of kind k to the refresh.
RefreshAnswered(k) ==
    cpc = "await_refresh" /\ response.kind = k /\ response' = NoMsg

Granted ==
    <<Some(response.access_token), response.refresh_token, response.expires_at>>

EnsureTokenStep ==
    /\ Sends("GET") =>
          /\ \/ /\ cpc = "get"
                /\ NotNull(access_token) /\ now < token_expires_at
                /\ UNCHANGED TokenFields
             \/ /\ RefreshAnswered("token")
                /\ TokenFields' = Granted
          /\ request'.bearer = access_token'
    /\ (cpc = "get" /\ cpc' # "get") =>
          (Sends("POST") <=> (IsNull(access_token) \/ now >= token_expires_at))
    /\ Sends("POST") => (cpc = "get" /\ request'.refresh_token = refresh_token)
    /\ RefreshAnswered("token") => TokenFields' = Granted
    /\ RefreshAnswered("error") =>
          /\ UNCHANGED TokenFields
          /\ request' = NoMsg
          /\ cpc' = "raised"
    /\ TokenFields' # TokenFields => RefreshAnswered("token")

\* C16: a GET is sent only in a step where _ensure_token finds the access
\* token set and now < token_expires_at, or stores a granted refresh; the
\* refresh is posted exactly when the token is unset or now >=
\* token_expires_at; a granted refresh replaces access_token, refresh_token
\* and token_expires_at together; a failed one changes none of them and
\* sends no GET.
C16_GetOnlyWithEnsuredToken == [][EnsureTokenStep]_vars

\* The second page's refresh has failed: the token was set but expired, the
\* refresh was posted and refused, and no GET for page 2 was sent.
C16_Witness ==
    /\ cpc = "raised"
    /\ page = 2
    /\ Len(requested) = 1
    /\ NotNull(access_token)
    /\ now >= token_expires_at
    /\ now > 0

====
